---- MODULE Spec2Model ----
(***************************************************************************)
(* State-machine model of src/src/lib.rs: the JWT-bearer token client      *)
(* (Credentials, AccessToken, Client::new / get_token / fetch_token /      *)
(* parse_response / create_jwt).                                           *)
(*                                                                         *)
(* Time is counted in ticks, TicksPerSec ticks to the second, so that a    *)
(* SystemTime carries a sub-second part.  An Option<T> is a sequence of    *)
(* length 0 (None) or 1 (Some).  A scope string is a sequence of           *)
(* characters.  The futures returned by get_token live in `calls`: they    *)
(* are 'static boxes, so several of them can be alive on one client; they  *)
(* hold an Rc and are therefore all driven by one thread.  The clock never *)
(* runs backwards.                                                         *)
(***************************************************************************)
EXTENDS Integers, Sequences, FiniteSets, TLC

VARIABLES
    credentials,    \* Client.credentials (the client_email; the key is abstract)
    scopes,         \* Client.scopes: the joined scope string
    scopeArgs,      \* the `scopes` iterator handed to Client::new (history)
    access_token,   \* Client.access_token: Rc<RefCell<Option<AccessToken>>>
    calls,          \* the futures returned by get_token, by handle
    clock,          \* SystemTime::now(), in ticks since UNIX_EPOCH
    ret             \* what the last resolved get_token future resolved to, and
                    \* how the fetch resolved before it had ended (history)

vars == <<credentials, scopes, scopeArgs, access_token, calls, clock, ret>>

----------------------------------------------------------------------------
(* Bounds of the model *)

MaxCalls == 2        \* futures of one client alive at the same time
MaxClock == 2        \* last clock value, in ticks
TicksPerSec == 2     \* clock resolution
TimeBits == 16       \* bits of a seconds counter (the program's have 64)

Calls == 1..MaxCalls

----------------------------------------------------------------------------
(* Values *)

TOKEN_URL == "https://www.googleapis.com/oauth2/v4/token"

JwtLifetimeSecs == 60 * 60

None == << >>
Some(x) == << x >>

Emails == {"svc@example.com", "other@example.com"}

\* scope strings, as sequences of characters
ScopeA == <<"s", ".", "a">>
ScopeB == <<"b">>
ScopeEmpty == << >>

ScopeStrings == {ScopeA, ScopeB, ScopeEmpty}

\* the scope collections a client is constructed with
ScopeLists ==
    {<< >>} \cup {<<x>> : x \in ScopeStrings}
            \cup {<<x, y>> : x \in ScopeStrings, y \in ScopeStrings}
            \cup {<<ScopeA, ScopeB, ScopeA>>, <<ScopeB, ScopeEmpty, ScopeA>>}

TokenValues == {"tok123", "tok456"}

\* the lifetimes, in seconds, the server reports
ExpiresIns == {0, 1}

\* u64::MAX, the largest expires_in of a TokenResponse
U64Max == 2^TimeBits - 1

\* the last instant a SystemTime holds: i64::MAX seconds and a full
\* sub-second part, in ticks
SystemTimeMax == (2^(TimeBits - 1) - 1) * TicksPerSec + (TicksPerSec - 1)

\* response bodies: a JSON object is a record, anything else is not JSON
JsonBody(obj) == [json |-> TRUE, obj |-> obj]
NotJsonBody == [json |-> FALSE, obj |-> [raw |-> "<html>"]]

FullBodies ==
    {JsonBody([access_token |-> v, token_type |-> "Bearer", expires_in |-> l]) :
        v \in TokenValues, l \in ExpiresIns}

BadBodies ==
    { NotJsonBody,
      JsonBody([token_type |-> "Bearer", expires_in |-> 1]),
      JsonBody([access_token |-> "tok123", expires_in |-> 1]),
      JsonBody([access_token |-> "tok123", token_type |-> "Bearer"]),
      JsonBody([access_token |-> "tok123", token_type |-> "Bearer", expires_in |-> -1]),
      JsonBody([access_token |-> "tok123", token_type |-> "Bearer",
                expires_in |-> U64Max + 1]),
      JsonBody([error |-> "invalid_grant", error_description |-> "bad assertion"]) }

\* a well-formed body whose lifetime is the largest a u64 holds
HugeBody ==
    JsonBody([access_token |-> "tok123", token_type |-> "Bearer", expires_in |-> U64Max])

Bodies == FullBodies \cup BadBodies \cup {HugeBody}

Statuses == {200, 500}

\* `sends` counts the requests the call has sent and `sentAt` holds the
\* clock value its pending request was sent at (history)
IdleCall == [pc |-> "idle", jwt |-> None, resp |-> None, token |-> None, raced |-> FALSE,
             sends |-> 0, sentAt |-> None]
DoneCall == [pc |-> "done", jwt |-> None, resp |-> None, token |-> None, raced |-> FALSE,
             sends |-> 0, sentAt |-> None]

NoRet == [kind |-> "none", token |-> None, error |-> "none", prev |-> "none", sends |-> 0]

----------------------------------------------------------------------------
(* Pure functions *)

\* Vec<String>::join(sep)
RECURSIVE join(_, _)
join(v, sep) ==
    IF Len(v) = 0 THEN << >>
    ELSE IF Len(v) = 1 THEN v[1]
    ELSE v[1] \o sep \o join(Tail(v), sep)

\* Duration::as_secs of a duration given in ticks
as_secs(d) == d \div TicksPerSec

\* Duration::from_secs, in ticks
from_secs(s) == s * TicksPerSec

\* expired with its operands exchanged
expired_swapped(token, now) == now < token.expires

\* AccessToken::expired
expired(token, now) == token.expires < now

\* create_jwt keeping the sub-second part of iat
create_jwt_subsec(creds, scope, now, keyOk, signOk) ==
    IF now < 0 THEN [ok |-> FALSE, error |-> "clock", jwt |-> None]
    ELSE IF ~keyOk THEN [ok |-> FALSE, error |-> "key", jwt |-> None]
    ELSE IF ~signOk THEN [ok |-> FALSE, error |-> "sign", jwt |-> None]
    ELSE [ok |-> TRUE, error |-> "none",
          jwt |-> Some([alg |-> "RS256",
                        claims |-> [iss |-> creds.client_email,
                                    scope |-> scope,
                                    aud |-> TOKEN_URL,
                                    exp |-> as_secs(now + from_secs(JwtLifetimeSecs)),
                                    iat |-> now]])]

\* Client::create_jwt: the claims are signed with the clock read at `now`;
\* keyOk / signOk say whether private_key_to_der / jsonwebtoken::encode succeed
create_jwt(creds, scope, now, keyOk, signOk) ==
    IF now < 0 THEN [ok |-> FALSE, error |-> "clock", jwt |-> None]
    ELSE IF ~keyOk THEN [ok |-> FALSE, error |-> "key", jwt |-> None]
    ELSE IF ~signOk THEN [ok |-> FALSE, error |-> "sign", jwt |-> None]
    ELSE LET iat == now
             exp == iat + from_secs(JwtLifetimeSecs)
         IN [ok |-> TRUE, error |-> "none",
             jwt |-> Some([alg |-> "RS256",
                           claims |-> [iss |-> creds.client_email,
                                       scope |-> scope,
                                       aud |-> TOKEN_URL,
                                       exp |-> as_secs(exp),
                                       iat |-> as_secs(iat)]])]

\* a decoding that fills in a missing token_type
json_TokenResponse_lenient(body) ==
    IF body.json
       /\ {"access_token", "expires_in"} \subseteq DOMAIN body.obj
       /\ body.obj.expires_in \in 0..U64Max
    THEN Some([access_token |-> body.obj.access_token,
               token_type |-> "Bearer",
               expires_in |-> body.obj.expires_in])
    ELSE None

\* Response::json::<TokenResponse>: serde decoding of the body
json_TokenResponse(body) ==
    IF body.json
       /\ {"access_token", "token_type", "expires_in"} \subseteq DOMAIN body.obj
       /\ body.obj.expires_in \in 0..U64Max
    THEN Some([access_token |-> body.obj.access_token,
               token_type |-> body.obj.token_type,
               expires_in |-> body.obj.expires_in])
    ELSE None

\* SystemTime::checked_add, behind `SystemTime + Duration`
checked_add(t, d) == IF t + d > SystemTimeMax THEN None ELSE Some(t + d)

\* a token that ignores the lifetime the server reports
make_token_nolifetime(response, now) ==
    [value |-> response.access_token, expires |-> now]

\* the closure of Client::parse_response: the token made of a decoded response
make_token(response, now) ==
    [value |-> response.access_token,
     expires |-> now + from_secs(response.expires_in)]

\* the cache check of Client::get_token: the token to return at once, if any
cache_lookup(slot, now) ==
    IF slot # None /\ ~expired(slot[1], now) THEN Some(slot[1]) ELSE None

----------------------------------------------------------------------------
(* Initial state: Client::new *)

New(email, args) ==
    /\ credentials = [client_email |-> email]
    /\ scopeArgs = args
    /\ scopes = join(args, <<" ">>)
    /\ access_token = None
    /\ calls = [c \in Calls |-> IdleCall]
    /\ ret = NoRet

Init ==
    /\ clock \in {-1, 0}
    /\ New("svc@example.com", <<ScopeA, ScopeB>>)

----------------------------------------------------------------------------
(* Actions *)

\* the synchronous closures of one poll run to their end before another
\* future is polled or another get_token call is made
NoneParsed == \A d \in Calls : calls[d].pc # "parsed"

\* the future of handle c resolves; `prev` keeps how the last attempt before
\* this one ended ("fetched", or "err" for an error or a panic), hits apart
Resolve(c, kind, tok, e) ==
    /\ calls' = [calls EXCEPT ![c] = DoneCall]
    /\ ret' = [kind |-> kind, token |-> tok, error |-> e,
               prev |-> IF ret.kind = "hit" THEN ret.prev
                        ELSE IF ret.kind = "panic" THEN "err" ELSE ret.kind,
               sends |-> calls[c].sends]

\* a failure that also empties the slot
Fail_clears(c, e) ==
    /\ Resolve(c, "err", None, e)
    /\ access_token' = None

\* a future resolving to an error: nothing else happens
Fail(c, e) ==
    /\ Resolve(c, "err", None, e)
    /\ UNCHANGED access_token

\* `SystemTime + Duration` overflows: the poll of the future panics
Panic(c) ==
    /\ Resolve(c, "panic", None, "overflow when adding duration to instant")
    /\ UNCHANGED access_token

\* a fetch that takes over the assertion a pending fetch holds, if there is one
fetch_token_reuse(c, keyOk, signOk) ==
    LET r == create_jwt(credentials, scopes, clock, keyOk, signOk)
        kept == { d \in Calls : calls[d].jwt # None }
    IN IF r.ok
       THEN /\ calls' = [calls EXCEPT ![c] =
                   [pc |-> "created",
                    jwt |-> IF kept = {} THEN r.jwt ELSE calls[CHOOSE d \in kept : TRUE].jwt,
                    resp |-> None, token |-> None,
                    raced |-> FALSE, sends |-> 0, sentAt |-> None]]
            /\ UNCHANGED <<access_token, ret>>
       ELSE Fail(c, r.error)

\* Client::fetch_token up to the making of the request future
fetch_token(c, keyOk, signOk) ==
    LET r == create_jwt(credentials, scopes, clock, keyOk, signOk)
    IN IF r.ok
       THEN /\ calls' = [calls EXCEPT ![c] =
                   [pc |-> "created", jwt |-> r.jwt, resp |-> None, token |-> None,
                    raced |-> FALSE, sends |-> 0, sentAt |-> None]]
            /\ UNCHANGED <<access_token, ret>>
       ELSE Fail(c, r.error)

\* get_token answering with the last error for as long as it is the last result
get_token_sticky(c, keyOk, signOk) ==
    IF ret.kind = "err"
    THEN Fail(c, ret.error)
    ELSE LET hit == cache_lookup(access_token, clock)
         IN IF hit # None
            THEN /\ Resolve(c, "hit", hit, "none")
                 /\ UNCHANGED access_token
            ELSE fetch_token(c, keyOk, signOk)

\* Client::get_token up to the return of the boxed future
get_token(c, keyOk, signOk) ==
    LET hit == cache_lookup(access_token, clock)
    IN IF hit # None
       THEN /\ Resolve(c, "hit", hit, "none")
            /\ UNCHANGED access_token
       ELSE fetch_token(c, keyOk, signOk)

\* a call of get_token; the new future takes the first free handle
GetToken(c, keyOk, signOk) ==
    /\ NoneParsed
    /\ calls[c].pc = "idle"
    /\ \A d \in Calls : d < c => calls[d].pc # "idle"
    /\ get_token(c, keyOk, signOk)
    /\ UNCHANGED <<credentials, scopes, scopeArgs, clock>>

\* First poll of the future: request.send().  `raced` records (history)
\* that the exchange was outstanding together with another future's.
Send(c) ==
    /\ NoneParsed
    /\ calls[c].pc = "created"
    /\ LET other == \E d \in Calls \ {c} : calls[d].pc = "sent"
       IN calls' = [d \in Calls |->
                     IF d = c
                     THEN [calls[c] EXCEPT !.pc = "sent", !.raced = other,
                                           !.sends = calls[c].sends + 1,
                                           !.sentAt = Some(clock)]
                     ELSE IF calls[d].pc = "sent" THEN [calls[d] EXCEPT !.raced = TRUE]
                     ELSE calls[d]]
    /\ UNCHANGED <<credentials, scopes, scopeArgs, access_token, clock, ret>>

\* the send future, or the reading of the body, fails: map_err(Error::from)
TransportError(c) ==
    /\ NoneParsed
    /\ calls[c].pc = "sent"
    /\ Fail(c, "transport")
    /\ UNCHANGED <<credentials, scopes, scopeArgs, clock>>

\* The send future resolves to a Response and Client::parse_response decodes
\* its body and makes the token.  The arrival of the response head touches no
\* state of the client, so it is one step with the decoding of the body.
Respond(c, status, body) ==
    /\ NoneParsed
    /\ calls[c].pc = "sent"
    /\ LET decoded == json_TokenResponse(body)
       IN IF decoded = None
          THEN Fail(c, "decode")
          ELSE IF checked_add(clock, from_secs(decoded[1].expires_in)) = None
          THEN Panic(c)
          ELSE /\ calls' = [calls EXCEPT ![c] =
                      [pc |-> "parsed", jwt |-> None,
                       resp |-> Some([response |-> decoded[1]]),
                       token |-> Some(make_token(decoded[1], clock)),
                       raced |-> calls[c].raced, sends |-> calls[c].sends,
                       sentAt |-> None]]
               /\ UNCHANGED <<access_token, ret>>
    /\ UNCHANGED <<credentials, scopes, scopeArgs, clock>>

\* the token is added to the slot instead of replacing its content
Store_push(c) ==
    /\ calls[c].pc = "parsed"
    /\ access_token' = Append(access_token, calls[c].token[1])
    /\ Resolve(c, "fetched", calls[c].token, "none")
    /\ UNCHANGED <<credentials, scopes, scopeArgs, clock>>

\* the token is written to a cell of its own, not to the client's
Store_copy(c) ==
    /\ calls[c].pc = "parsed"
    /\ access_token' = access_token
    /\ Resolve(c, "fetched", calls[c].token, "none")
    /\ UNCHANGED <<credentials, scopes, scopeArgs, clock>>

\* the expiry is computed again, with the clock read at the store
Store_restamp(c) ==
    /\ calls[c].pc = "parsed"
    /\ LET t == [value |-> calls[c].token[1].value,
                 expires |-> clock + from_secs(calls[c].resp[1].response.expires_in)]
       IN /\ access_token' = Some(t)
          /\ Resolve(c, "fetched", Some(t), "none")
    /\ UNCHANGED <<credentials, scopes, scopeArgs, clock>>

\* the and_then closure of get_token: the slot is replaced, the future resolves
Store(c) ==
    /\ calls[c].pc = "parsed"
    /\ access_token' = Some(calls[c].token[1])
    /\ Resolve(c, "fetched", calls[c].token, "none")
    /\ UNCHANGED <<credentials, scopes, scopeArgs, clock>>

\* the caller drops the boxed future, resolved or not
Drop(c) ==
    /\ NoneParsed
    /\ calls[c].pc \in {"created", "sent", "done"}
    /\ calls' = [calls EXCEPT ![c] = IdleCall]
    /\ UNCHANGED <<credentials, scopes, scopeArgs, access_token, clock, ret>>

\* time passes and a timer empties the slot of a token that has expired
Tick_evicts ==
    /\ clock < MaxClock
    /\ clock' = clock + 1
    /\ access_token' = IF access_token # None /\ expired(access_token[1], clock + 1)
                       THEN None ELSE access_token
    /\ UNCHANGED <<credentials, scopes, scopeArgs, calls, ret>>

\* time passes
Tick ==
    /\ clock < MaxClock
    /\ clock' = clock + 1
    /\ UNCHANGED <<credentials, scopes, scopeArgs, access_token, calls, ret>>

Next ==
    \/ \E c \in Calls, keyOk \in BOOLEAN, signOk \in BOOLEAN : GetToken(c, keyOk, signOk)
    \/ \E c \in Calls : Send(c)
    \/ \E c \in Calls : TransportError(c)
    \/ \E c \in Calls, status \in Statuses, body \in Bodies : Respond(c, status, body)
    \/ \E c \in Calls : Store(c)
    \/ \E c \in Calls : Drop(c)
    \/ Tick

Spec == Init /\ [][Next]_vars

----------------------------------------------------------------------------
(* Signing alone: Client::new over every identity and scope collection,    *)
(* then calls of get_token whose futures are never polled.                 *)

InitJwt ==
    /\ clock \in {-1, 0}
    /\ \E email \in Emails, args \in ScopeLists : New(email, args)

NextJwt ==
    \/ \E c \in Calls, keyOk \in BOOLEAN, signOk \in BOOLEAN : GetToken(c, keyOk, signOk)
    \/ \E c \in Calls : Drop(c)
    \/ Tick

SpecJwt == InitJwt /\ [][NextJwt]_vars

----------------------------------------------------------------------------
(* Steps, as seen in a pair of states *)

\* get_token is called and its future takes handle c
Begins(c) == calls[c].pc = "idle" /\ calls'[c].pc # "idle"

\* the future of handle c resolves
Resolves(c) == calls[c].pc # "done" /\ calls'[c].pc = "done"

\* no other future moves
OthersUnchanged(c) == \A d \in Calls \ {c} : calls'[d] = calls[d]

\* clock values to judge a token at
ClockRange == (-1)..(MaxClock + from_secs(2))

----------------------------------------------------------------------------
(* Claims *)

\* C1 - Cache hit: a get_token call made while the slot holds a token with
\* now < expires resolves at once to a token equal to the cached one, signs
\* nothing, sends nothing (no future is left pending, no other future moves)
\* and leaves the slot unchanged; so does every further call in the window.
C1_CacheHit ==
    [][ \A c \in Calls :
          (Begins(c) /\ access_token # None /\ clock < access_token[1].expires)
          => /\ calls'[c] = DoneCall
             /\ ret'.kind = "hit"
             /\ ret'.token = access_token
             /\ ret'.error = "none"
             /\ access_token' = access_token
             /\ OthersUnchanged(c) ]_vars

C1_Witness ==
    /\ ret.kind = "hit"
    /\ access_token # None
    /\ ret.token = access_token
    /\ clock < access_token[1].expires
    /\ \A c \in Calls : calls[c].pc = "done"

\* C2 - Expiry boundary: for every clock value now >= cached.expires, the
\* instant now = expires included, expired() is true and a get_token call does
\* not resolve to the cached token but starts a fetch.
C2_ExpiryBoundary ==
    [][ \A c \in Calls :
          (Begins(c) /\ access_token # None /\ clock >= access_token[1].expires)
          => /\ expired(access_token[1], clock)
             /\ ~(calls'[c].pc = "done" /\ ret'.kind = "hit") ]_vars

\* C3 - Failure leaves the cache untouched: a future that resolves without a
\* cache hit and without having made a token (the clock read, the key, the
\* signing, the transport or the decoding failed) resolves to an error,
\* carries no token and writes nothing to the slot; a stale token stays stale.
\* (A poll that panics in the expiry arithmetic fails at none of these steps;
\* it writes nothing to the slot either.)
C3_FailureLeavesCache ==
    [][ \A c \in Calls :
          (Resolves(c) /\ calls[c].pc # "parsed" /\ ret'.kind # "hit")
          => /\ ret'.kind # "panic"
                  => /\ ret'.kind = "err"
                     /\ ret'.error \in {"clock", "key", "sign", "transport", "decode"}
             /\ ret'.token = None
             /\ access_token' = access_token
             /\ (access_token # None /\ expired(access_token[1], clock)
                   => cache_lookup(access_token', clock') = None) ]_vars

\* a still-valid token has survived the failure of an overlapping fetch
C3_Witness ==
    /\ ret.kind = "err"
    /\ ret.error \in {"transport", "decode"}
    /\ access_token # None
    /\ ~expired(access_token[1], clock)

\* a response the server answers a valid assertion with
GoodBody == JsonBody([access_token |-> "tok123", token_type |-> "Bearer", expires_in |-> 1])

\* C4 - No poisoned state: when the last future resolved to an error, a
\* get_token call that misses the cache signs a new assertion with the clock
\* of that call (or fails in signing, never with an earlier error), every
\* pending future can take its next step, and a fetch whose signing and
\* exchange succeeded resolves to the new token and stores it.
C4_NoPoisonedState ==
    /\ [](\A c \in Calls :
            /\ (ret.kind = "err" /\ NoneParsed /\ calls[c].pc = "created")
               => ENABLED Send(c)
            /\ (ret.kind = "err" /\ NoneParsed /\ calls[c].pc = "sent")
               => ENABLED Respond(c, 200, GoodBody)
            /\ (ret.kind = "err" /\ NoneParsed /\ calls[c].pc = "done")
               => ENABLED Drop(c)
            /\ calls[c].pc = "parsed" => ENABLED Store(c))
    /\ [][ \A c \in Calls :
            /\ (ret.kind = "err" /\ Begins(c) /\ cache_lookup(access_token, clock) = None)
               => \/ /\ calls'[c].pc = "created"
                     /\ calls'[c].jwt # None
                     /\ calls'[c].jwt[1].claims.iat = clock \div TicksPerSec
                     /\ ret' = ret
                  \/ /\ calls'[c] = DoneCall
                     /\ ret'.kind = "err"
                     /\ ret'.error \in {"clock", "key", "sign"}
            /\ (calls[c].pc = "parsed" /\ calls'[c] # calls[c])
               => /\ calls'[c] = DoneCall
                  /\ ret'.kind = "fetched"
                  /\ ret'.token = calls[c].token
                  /\ access_token' = calls[c].token ]_vars

\* a fetch has succeeded after the fetch before it had failed
C4_Witness ==
    /\ ret.kind = "fetched"
    /\ ret.prev = "err"
    /\ access_token = ret.token

\* C5 - Replacement on success: the slot holds zero or one token in every
\* state, and when a fetch succeeds the slot holds exactly the token the
\* future resolved to, whose value and lifetime are those of the one response.
C5_ReplacementOnSuccess ==
    /\ [](Len(access_token) <= 1)
    /\ [][ \A c \in Calls :
             (calls[c].pc = "parsed" /\ Resolves(c))
             => /\ ret'.kind = "fetched"
                /\ ret'.token = calls[c].token
                /\ access_token' = ret'.token
                /\ LET r == calls[c].resp[1].response
                       receipt == ret'.token[1].expires - r.expires_in * TicksPerSec
                   IN /\ ret'.token[1].value = r.access_token
                      /\ receipt \in 0..clock ]_vars

\* a second fetch has succeeded after a first one
C5_Witness ==
    /\ ret.kind = "fetched"
    /\ ret.prev = "fetched"
    /\ Len(access_token) = 1
    /\ access_token = ret.token

\* C6 - Sequential ordering: once a fetch has resolved, the slot holds its
\* token for every call made after it, and a call made while that token is
\* unexpired resolves to it at once, no request made.
C6_SequentialOrdering ==
    /\ [](ret.kind = "fetched" => access_token = ret.token)
    /\ [][ \A c \in Calls :
             (ret.kind = "fetched" /\ Begins(c) /\ clock < ret.token[1].expires)
             => /\ calls'[c] = DoneCall
                /\ ret'.kind = "hit"
                /\ ret'.token = ret.token
                /\ OthersUnchanged(c) ]_vars

\* a call made after a successful fetch was answered from the slot
C6_Witness ==
    /\ ret.kind = "hit"
    /\ ret.prev = "fetched"
    /\ ret.token = access_token

\* C7 - Overlapping misses: a completing fetch whose exchange was outstanding
\* together with the exchange of an overlapping call (so the second call did
\* issue its own exchange) never replaces the token in the slot by a token
\* with an earlier expires.
C7_OverlappingMisses ==
    [][ \A c \in Calls :
          (calls[c].pc = "parsed" /\ Resolves(c) /\ calls[c].raced
             /\ access_token # None)
          => access_token'[1].expires >= access_token[1].expires ]_vars

\* C8 - Non-2xx responses are failures: an exchange answered with a non-2xx
\* status resolves its future to an error, with no token and the slot
\* unchanged, whatever the body.
C8_Non2xxIsFailure ==
    [][ \A c \in Calls, status \in Statuses \ (200..299), body \in Bodies :
          ~ENABLED ( /\ Respond(c, status, body)
                     /\ ~( /\ Resolves(c)
                           /\ ret'.kind = "err"
                           /\ ret'.token = None
                           /\ access_token' = access_token ) ) ]_vars

\* the sum of the lengths of the first n strings of args
RECURSIVE SumLen(_, _)
SumLen(args, n) == IF n = 0 THEN 0 ELSE SumLen(args, n - 1) + Len(args[n])

\* s is the strings of args in their order, one space between neighbours
IsJoined(s, args) ==
    LET n == Len(args)
    IN /\ Len(s) = SumLen(args, n) + (IF n = 0 THEN 0 ELSE n - 1)
       /\ \A i \in 1..n : \A k \in 1..Len(args[i]) :
             s[SumLen(args, i - 1) + (i - 1) + k] = args[i][k]
       /\ \A i \in 1..(n - 1) : s[SumLen(args, i) + i] = " "

\* C9 - Claims correctness: the claims signed at clock value T have
\* iat = floor(T), exp = iat + 3600, aud = the token URL, iss = the client
\* identity and scope = the construction's scope strings joined by spaces.
C9_ClaimsCorrectness ==
    [][ \A c \in Calls :
          (Begins(c) /\ calls'[c].pc = "created")
          => /\ calls'[c].jwt # None
             /\ LET cl == calls'[c].jwt[1].claims
                IN /\ cl.iat * TicksPerSec <= clock
                   /\ clock < (cl.iat + 1) * TicksPerSec
                   /\ cl.exp = cl.iat + 3600
                   /\ cl.aud = "https://www.googleapis.com/oauth2/v4/token"
                   /\ cl.iss = credentials.client_email
                   /\ IsJoined(cl.scope, scopeArgs) ]_vars

\* claims of several scopes signed in a second that has a sub-second part
C9_Witness ==
    \E c \in Calls :
        /\ calls[c].pc = "created"
        /\ Len(scopeArgs) >= 2
        /\ calls[c].jwt[1].claims.iat * TicksPerSec < clock
        /\ clock < (calls[c].jwt[1].claims.iat + 1) * TicksPerSec

\* C10 - Lifetime of a fresh token: a token made of a response with
\* expires_in = L > 0 has the response's access_token as value, is not
\* expired at its receipt, nor at any clock value before receipt + L, and is
\* expired at every clock value after receipt + L; it is the token the
\* future resolves to.
C10_FreshTokenLifetime ==
    [][ \A c \in Calls :
          /\ (calls[c].pc = "sent" /\ calls'[c].pc = "parsed"
                /\ calls'[c].resp[1].response.expires_in > 0)
             => LET t == calls'[c].token[1]
                    r == calls'[c].resp[1].response
                    L == r.expires_in * TicksPerSec
                IN /\ t.value = r.access_token
                   /\ ~expired(t, clock)
                   /\ \A now \in ClockRange :
                        /\ now < clock + L => ~expired(t, now)
                        /\ now > clock + L => expired(t, now)
          /\ (calls[c].pc = "parsed" /\ Resolves(c))
             => ret'.token = calls[c].token ]_vars

\* a token of a positive lifetime, just made and not expired
C10_Witness ==
    \E c \in Calls :
        /\ calls[c].pc = "parsed"
        /\ calls[c].resp[1].response.expires_in > 0
        /\ calls[c].token[1].value = calls[c].resp[1].response.access_token
        /\ ~expired(calls[c].token[1], clock)

\* the bodies that are not JSON or lack access_token, token_type or a
\* non-negative integer expires_in
RefusedBodies ==
    { b \in Bodies : \/ ~b.json
                     \/ "access_token" \notin DOMAIN b.obj
                     \/ "token_type" \notin DOMAIN b.obj
                     \/ "expires_in" \notin DOMAIN b.obj
                     \/ b.obj.expires_in < 0 }

\* the future resolved to the error `e`, without a token, having sent
\* `n` requests, and the slot is as it was
FailsWith(c, e, n) ==
    /\ ret'.kind = "err"
    /\ ret'.error = e
    /\ ret'.token = None
    /\ ret'.sends = n
    /\ calls'[c] = DoneCall
    /\ access_token' = access_token

\* C11 - First error wins and identifies its step: on a cache miss a failing
\* clock read, else a failing key serialization, else a failing signing is
\* the error get_token yields, and no request is sent; a transport failure
\* yields the transport error and nothing is decoded; a body that is not
\* JSON or lacks access_token, token_type or a non-negative integer
\* expires_in yields the decode error; a future that resolves to a token has
\* either hit the cache or come through every step.
C11_FirstErrorWins ==
    /\ [](\A c \in Calls :
            /\ \A keyOk, signOk \in BOOLEAN :
                  ~ENABLED ( /\ GetToken(c, keyOk, signOk)
                             /\ cache_lookup(access_token, clock) = None
                             /\ clock < 0 \/ ~keyOk \/ ~signOk
                             /\ ~FailsWith(c, IF clock < 0 THEN "clock"
                                              ELSE IF ~keyOk THEN "key" ELSE "sign", 0) )
            /\ ~ENABLED (TransportError(c) /\ ~FailsWith(c, "transport", 1))
            /\ \A status \in Statuses, body \in RefusedBodies :
                  ~ENABLED (Respond(c, status, body) /\ ~FailsWith(c, "decode", 1)))
    /\ [][ \A c \in Calls :
            /\ (Resolves(c) /\ ret'.kind \in {"hit", "fetched"})
               => /\ ret'.error = "none"
                  /\ ret'.token # None
                  /\ \/ ret'.kind = "hit" /\ calls[c].pc = "idle"
                        /\ ret'.token = cache_lookup(access_token, clock)
                     \/ ret'.kind = "fetched" /\ calls[c].pc = "parsed"
                        /\ ret'.token = calls[c].token
            /\ (calls[c].pc # "parsed" /\ calls'[c].pc = "parsed")
               => /\ calls[c].pc = "sent"
                  /\ calls'[c].resp # None
                  /\ calls'[c].token # None ]_vars

\* a decode error after one request, and before it a signing-side error
C11_Witness ==
    /\ ret.kind = "err"
    /\ ret.error = "decode"
    /\ ret.sends = 1
    /\ ret.prev = "err"

\* the requests an invocation must have sent when it ends: none after a
\* cache hit or a signing-side error, one after a miss with a signed assertion
SendsDue(kind, error) ==
    IF kind = "hit" \/ error \in {"clock", "key", "sign"} THEN 0 ELSE 1

\* C12 - One exchange per invocation, no retries: an invocation never sends
\* a second request; when it ends it has sent no request if it hit the cache
\* or failed to sign, and exactly one request if it missed the cache and
\* signed its assertion, whether its future resolved or was dropped.
C12_OneExchange ==
    [][ \A c \in Calls :
          /\ calls'[c].sends <= 1
          /\ Resolves(c) => ret'.sends = SendsDue(ret'.kind, ret'.error)
          /\ (calls[c].pc \in {"created", "sent"} /\ calls'[c].pc = "idle")
             => calls[c].sends = 1 ]_vars

\* C13 - The cache never stores an expired token: whenever a token is
\* written into the slot, the cache's own expiry check finds it not expired
\* at the instant of the write, whatever its lifetime (0 included) and
\* however long after its receipt it is stored.
C13_NeverStoresExpired ==
    [][ access_token' # access_token
          => /\ access_token' # None
             /\ ~expired(access_token'[1], clock') ]_vars

\* C14 - Receipt-time ordering: no expiry exists before the response is
\* there; the step that obtains the response reads the clock and makes
\* expires = that clock value + expires_in, at or after the instant the
\* request was sent; the value is not computed again while the token waits,
\* and the slot and the caller get the token with that same expiry.
C14_ReceiptTimeOrdering ==
    [][ \A c \in Calls :
          /\ calls[c].pc \in {"idle", "created", "sent"} => calls[c].token = None
          /\ (calls[c].pc = "created" /\ calls'[c].pc = "sent")
             => calls'[c].sentAt = Some(clock)
          /\ (calls[c].pc = "sent" /\ calls'[c].pc = "parsed")
             => /\ clock' = clock
                /\ calls[c].sentAt # None
                /\ calls[c].sentAt[1] <= clock
                /\ calls'[c].token[1].expires
                     = clock + calls'[c].resp[1].response.expires_in * TicksPerSec
          /\ (calls[c].pc = "parsed" /\ calls'[c].pc = "parsed")
             => calls'[c].token = calls[c].token
          /\ (calls[c].pc = "parsed" /\ calls'[c].pc # "parsed")
             => /\ Resolves(c)
                /\ access_token' = calls[c].token
                /\ ret'.token = calls[c].token ]_vars

\* a token made at its receipt waits for the store while the clock goes on
C14_Witness ==
    \E c \in Calls :
        /\ calls[c].pc = "parsed"
        /\ calls[c].token[1].expires
             - calls[c].resp[1].response.expires_in * TicksPerSec < clock

\* C15 - Frame of get_token: no step changes the credentials or the joined
\* scope string; the slot changes only in the step that completes a
\* successful fetch, and becomes that fetch's token; a cache hit, a failed
\* fetch, the drop of a future and the passing of time leave the slot as it
\* is, and a slot that holds a token never becomes empty.
C15_Frame ==
    [][ /\ credentials' = credentials
        /\ scopes' = scopes
        /\ scopes = join(scopeArgs, " ")
        /\ access_token' # access_token
             => \E c \in Calls :
                   /\ calls[c].pc = "parsed"
                   /\ Resolves(c)
                   /\ ret'.kind = "fetched"
                   /\ access_token' = calls[c].token
        /\ \A c \in Calls :
             (Resolves(c) /\ ret'.kind # "fetched") => access_token' = access_token
        /\ clock' # clock => access_token' = access_token
        /\ access_token # None => access_token' # None ]_vars

\* a token that has expired is still in the slot after a failed fetch
C15_Witness ==
    /\ access_token # None
    /\ expired(access_token[1], clock)
    /\ ret.kind = "err"
    /\ ret.prev = "fetched"

\* C16 - Fresh assertion per attempt: the assertion of a fetch is signed in
\* the get_token step that starts the fetch, with iat the second of the
\* clock at that step; the request the fetch sends carries that assertion;
\* a fetch sends at most one request; no assertion outlives its exchange, a
\* failure or the drop of its future, and none passes from one invocation
\* to another.
C16_FreshAssertion ==
    [][ \A c \in Calls :
          /\ calls[c].pc \in {"idle", "parsed", "done"} => calls[c].jwt = None
          /\ calls[c].pc \in {"created", "sent"} => calls[c].jwt # None
          /\ (Begins(c) /\ calls'[c].pc = "created")
             => /\ calls'[c].jwt # None
                /\ calls'[c].jwt[1].claims.iat * TicksPerSec <= clock
                /\ clock < (calls'[c].jwt[1].claims.iat + 1) * TicksPerSec
                /\ OthersUnchanged(c)
          /\ (calls[c].pc = "created" /\ calls'[c].pc = "sent")
             => /\ calls'[c].jwt = calls[c].jwt
                /\ calls[c].sends = 0
                /\ calls'[c].sends = 1
          /\ calls[c].pc = "sent" => calls'[c].pc # "created"
          /\ calls'[c].sends <= 1
          /\ (calls[c].jwt # None /\ calls'[c].jwt # calls[c].jwt)
             => calls'[c].jwt = None ]_vars

\* two pending fetches hold assertions signed in different seconds, and an
\* earlier attempt has failed
C16_Witness ==
    /\ ret.kind = "err"
    /\ \E c, d \in Calls :
          /\ calls[c].pc = "sent"
          /\ calls[d].pc = "created"
          /\ calls[c].jwt[1].claims.iat < calls[d].jwt[1].claims.iat

\* a fetch that has started and not ended
Pending(call) == call.pc \in {"created", "sent", "parsed"}

\* C17 - A started fetch runs to completion: a fetch that has started ends
\* only by its future resolving, either to its token, which is then in the
\* slot, or to an error, with the slot as it was; it is never abandoned
\* (its future dropped or left unpolled) and never ends in another way.
C17_StartedFetchCompletes ==
    [][ \A c \in Calls :
          (Pending(calls[c]) /\ ~Pending(calls'[c]))
          => /\ Resolves(c)
             /\ \/ /\ ret'.kind = "fetched"
                   /\ ret'.token # None
                   /\ access_token' = ret'.token
                \/ /\ ret'.kind = "err"
                   /\ access_token' = access_token ]_vars

\* C18 - No overflow in expiry arithmetic: whatever expires_in of the u64
\* range the response carries and whatever the receipt time, the exchange
\* ends with a token whose expires is exactly receipt time + expires_in or
\* with an error value, never with an abort; and the exp of an assertion is
\* its iat + 3600, within the u64 range.
C18_NoOverflow ==
    [][ \A c \in Calls :
          /\ (calls[c].pc = "sent" /\ calls'[c].pc \notin {"sent", "idle"})
             => \/ /\ calls'[c].pc = "parsed"
                   /\ calls'[c].resp[1].response.expires_in \in 0..U64Max
                   /\ calls'[c].token[1].expires
                        = clock + calls'[c].resp[1].response.expires_in * TicksPerSec
                \/ /\ Resolves(c)
                   /\ ret'.kind = "err"
          /\ (Begins(c) /\ calls'[c].pc = "created")
             => /\ calls'[c].jwt[1].claims.exp = calls'[c].jwt[1].claims.iat + 3600
                /\ calls'[c].jwt[1].claims.exp <= U64Max ]_vars

====
